---- MODULE Spec2Model ----
(***************************************************************************)
(* isodate: the Duration value type with its calendar arithmetic           *)
(* (src/isodate/duration.py) and the ISO 8601 time parser with its         *)
(* process-wide pattern cache (src/isodate/isotime.py).                    *)
(*                                                                         *)
(* Decimal values (Duration.years, Duration.months, the argument of        *)
(* fquotmod) are fixed-point numbers: the integer n stands for n/Scale.    *)
(* A timedelta is a whole number of days and a calendar point is a         *)
(* datetime.date, so `date - timedelta` moves the date by whole days.      *)
(***************************************************************************)
EXTENDS Integers, Sequences, FiniteSets, TLC

VARIABLES
    self,              \* Duration: the receiver of the operator under test
    other,             \* the other operand: a Duration, a date or a timedelta
    op,                \* the operation applied last
    ret,               \* what that operation returned or raised
    fqin,              \* the arguments of the fquotmod call under test
    TIME_REGEX_CACHE,  \* isotime.TIME_REGEX_CACHE: a list of compiled patterns
    timestring,        \* the argument of the parse_time calls
    cacheops,          \* the operations the last call performed on the cache
    pc,                \* per thread: the position inside build_time_regexps / parse_time
    addidx,            \* per thread: the add_re call it makes next
    entry,             \* per thread: the function the thread called
    isotimes,          \* per thread: the list build_time_regexps returned
    cleared,           \* per thread: the populated-check of its call took the clear branch
    outcome            \* per thread: how its call ended

vars == <<self, other, op, ret, fqin, TIME_REGEX_CACHE, timestring, cacheops,
          pc, addidx, entry, isotimes, cleared, outcome>>

durVars == <<self, other, op, ret>>
timeVars == <<TIME_REGEX_CACHE, timestring, cacheops>>
threadVars == <<pc, addidx, entry, isotimes, cleared, outcome>>

None == [kind |-> "None"]

(***************************************************************************)
(* Bounds of the model.                                                    *)
(***************************************************************************)
Scale == 2        \* Decimal resolution: values are multiples of 1/Scale
MaxYears == 1     \* Duration.years ranges over -MaxYears..MaxYears
MaxMonths == 13   \* Duration.months ranges over -MaxMonths..MaxMonths
MaxDays == 1      \* the timedelta part ranges over -MaxDays..MaxDays days
MaxVal == 15      \* fquotmod: val ranges over -MaxVal..MaxVal (whole units)
MaxLow == 1       \* fquotmod: low ranges over -MaxLow..MaxLow
MaxSpan == 12     \* fquotmod: high - low ranges over 1..MaxSpan

(***************************************************************************)
(* Decimal helpers.                                                        *)
(***************************************************************************)
Dec(n) == n * Scale

\* float(x).is_integer()
IsInteger(x) == x % Scale = 0

\* int(x): truncation toward zero
IntOf(x) == IF x >= 0 THEN x \div Scale ELSE -((-x) \div Scale)

\* (a / b).to_integral(ROUND_FLOOR) for a Decimal a (scaled) and an int b # 0
FloorQuot(a, b) ==
    IF b > 0 THEN a \div (b * Scale) ELSE (-a) \div ((-b) * Scale)

\* divmod for Decimal truncates instead of flooring (the comment of fquotmod)
TruncQuot(a, b) ==
    LET n == IF a >= 0 THEN a ELSE -a
        d == IF b >= 0 THEN b * Scale ELSE (-b) * Scale
        q == n \div d
    IN IF (a >= 0) = (b >= 0) THEN q ELSE -q

fquotmod_trunc(val, low, high) ==
    LET a == val - Dec(low)
        b == high - low
        div == TruncQuot(a, b)
    IN [div |-> div, mod |-> (a - div * b * Scale) + Dec(low)]

\* fquotmod(val, low, high): (div, mod), mod a Decimal
fquotmod(val, low, high) ==
    LET a == val - Dec(low)
        b == high - low
        div == FloorQuot(a, b)
        mod == a - div * b * Scale
    IN [div |-> div, mod |-> mod + Dec(low)]

max_days_in_month(year, month) ==
    IF month \in {1, 3, 5, 7, 8, 10, 12} THEN 31
    ELSE IF month \in {4, 6, 9, 11} THEN 30
    ELSE IF (year % 400 = 0) \/ ((year % 100 # 0) /\ (year % 4 = 0)) THEN 29
    ELSE 28

(***************************************************************************)
(* datetime.date, as far as Duration uses it.                              *)
(***************************************************************************)
Date(y, m, d) == [kind |-> "date", year |-> y, month |-> m, day |-> d]

Timedelta(n) == [kind |-> "timedelta", days |-> n]

ValueError == [kind |-> "ValueError"]

NotImplemented == [kind |-> "NotImplemented"]

IsLeap(y) == (y % 4 = 0) /\ ((y % 100 # 0) \/ (y % 400 = 0))

DaysInMonth(y, m) ==
    IF m = 2 THEN (IF IsLeap(y) THEN 29 ELSE 28)
    ELSE IF m \in {4, 6, 9, 11} THEN 30 ELSE 31

\* other.replace(year=y, month=m, day=d): ValueError unless the fields name a date
date_replace(y, m, d) ==
    IF y \in 1..9999 /\ m \in 1..12 /\ d >= 1 /\ d <= DaysInMonth(y, m)
    THEN Date(y, m, d)
    ELSE ValueError

PrevDay(p) ==
    IF p.day > 1 THEN Date(p.year, p.month, p.day - 1)
    ELSE IF p.month > 1
         THEN Date(p.year, p.month - 1, DaysInMonth(p.year, p.month - 1))
         ELSE Date(p.year - 1, 12, 31)

NextDay(p) ==
    IF p.day < DaysInMonth(p.year, p.month) THEN Date(p.year, p.month, p.day + 1)
    ELSE IF p.month < 12 THEN Date(p.year, p.month + 1, 1)
         ELSE Date(p.year + 1, 1, 1)

RECURSIVE date_sub(_, _)
\* p - timedelta(days=n); an exception raised while building p propagates
date_sub(p, n) ==
    IF p.kind # "date" THEN p
    ELSE IF n = 0 THEN p
    ELSE IF n > 0 THEN date_sub(PrevDay(p), n - 1)
    ELSE date_sub(NextDay(p), n + 1)

(***************************************************************************)
(* class Duration                                                          *)
(***************************************************************************)
\* Duration(days=tdelta, months=months, years=years)
Duration(years, months, tdelta) ==
    [kind |-> "Duration", years |-> years, months |-> months, tdelta |-> tdelta]

\* the isinstance(other, Duration) branch of __add__ with the operands' roles
\* as in an ordinary sum
add_durations_sum(a, b) ==
    Duration(a.years + b.years, a.months + b.months, a.tdelta + b.tdelta)

\* the isinstance(other, Duration) branch of Duration.__add__
add_durations(a, b) ==
    Duration(b.years - a.years, a.months - b.months, b.tdelta - a.tdelta)

\* the isinstance(other, (date, datetime)) branch of Duration.__add__; the
\* result keeps the local newdt beside the returned value
add_date(a, p) ==
    IF ~(IsInteger(a.years) /\ IsInteger(a.months))
    THEN [newdt |-> None, value |-> NotImplemented]
    ELSE LET fq == fquotmod(Dec(p.month) + a.months, 0, 12)
             carry == fq.div
             newmonth == fq.mod
             newyear == Dec(p.year) + a.years + Dec(carry) + Dec(1)
             maxdays == max_days_in_month(IntOf(newyear), IntOf(newmonth))
             newday == IF p.day < maxdays THEN p.day ELSE maxdays - 1
             newdt == date_replace(IntOf(newyear), IntOf(newmonth), newday)
         IN [newdt |-> newdt, value |-> date_sub(newdt, a.tdelta)]

\* the isinstance(other, timedelta) branch of Duration.__add__
add_timedelta(a, t) == Duration(a.years, a.months, t.days - a.tdelta)

\* Duration.__add__(self, other), also __radd__
Duration_add(a, b) ==
    IF b.kind = "Duration" THEN [newdt |-> None, value |-> add_durations(a, b)]
    ELSE IF b.kind = "date" THEN add_date(a, b)
    ELSE IF b.kind = "timedelta" THEN [newdt |-> None, value |-> add_timedelta(a, b)]
    ELSE [newdt |-> None, value |-> None]

\* Duration.__sub__(self, other)
Duration_sub(a, b) ==
    IF b.kind = "Duration"
    THEN Duration(a.years - b.years, a.months - b.months, a.tdelta - b.tdelta)
    ELSE IF b.kind = "timedelta"
    THEN Duration(a.years, a.months, a.tdelta - b.days)
    ELSE NotImplemented

\* the date branch of __rsub__ with the day kept as it is
rsub_date_noclamp(a, p) ==
    IF ~(IsInteger(a.years) /\ IsInteger(a.months))
    THEN [newdt |-> None, value |-> ValueError]
    ELSE LET fq == fquotmod(Dec(p.month) - a.months, 1, 13)
             newyear == Dec(p.year) - a.years + Dec(fq.div)
             newdt == date_replace(IntOf(newyear), IntOf(fq.mod), p.day)
         IN [newdt |-> newdt, value |-> date_sub(newdt, a.tdelta)]

\* the date branch of Duration.__rsub__: other - self
rsub_date(a, p) ==
    IF ~(IsInteger(a.years) /\ IsInteger(a.months))
    THEN [newdt |-> None, value |-> ValueError]
    ELSE LET fq == fquotmod(Dec(p.month) - a.months, 1, 13)
             carry == fq.div
             newmonth == fq.mod
             newyear == Dec(p.year) - a.years + Dec(carry)
             maxdays == max_days_in_month(IntOf(newyear), IntOf(newmonth))
             newday == IF p.day > maxdays THEN maxdays ELSE p.day
             newdt == date_replace(IntOf(newyear), IntOf(newmonth), newday)
         IN [newdt |-> newdt, value |-> date_sub(newdt, a.tdelta)]

\* Duration.__rsub__(self, other): other - self
Duration_rsub(a, b) ==
    IF b.kind = "timedelta"
    THEN [newdt |-> None, value |-> Duration_sub(Duration(0, 0, b.days), a)]
    ELSE IF b.kind = "date" THEN rsub_date(a, b)
    ELSE [newdt |-> None, value |-> NotImplemented]

\* == that tells the (years, months) pairs apart
Duration_eq_fields(a, b) ==
    IF b.kind = "Duration"
    THEN a.years = b.years /\ a.months = b.months /\ a.tdelta = b.tdelta
    ELSE IF a.years = 0 /\ a.months = 0 THEN b.kind = "timedelta" /\ a.tdelta = b.days
    ELSE FALSE

\* Duration.__eq__(self, other)
Duration_eq(a, b) ==
    IF b.kind = "Duration"
    THEN (a.years * 12 + a.months = b.years * 12 + b.months) /\ a.tdelta = b.tdelta
    ELSE IF a.years = 0 /\ a.months = 0 THEN b.kind = "timedelta" /\ a.tdelta = b.days
    ELSE FALSE

\* Duration.__ne__(self, other)
Duration_ne(a, b) ==
    IF b.kind = "Duration"
    THEN (a.years * 12 + a.months # b.years * 12 + b.months) \/ a.tdelta # b.tdelta
    ELSE IF a.years = 0 /\ a.months = 0 THEN ~(b.kind = "timedelta" /\ a.tdelta = b.days)
    ELSE TRUE

(***************************************************************************)
(* Specification Spec: the Duration operators applied to operands drawn    *)
(* from bounded sets.  No operator assigns to a field of an operand.       *)
(***************************************************************************)
Fraction == Scale - 1   \* a Decimal strictly between 0 and 1

SelfDurations ==
    { Duration(y, m, t) :
        y \in {Dec(k) : k \in -MaxYears..MaxYears} \cup {Fraction},
        m \in {Dec(k) : k \in -MaxMonths..MaxMonths} \cup {Fraction},
        t \in -MaxDays..MaxDays }

OtherDurations ==
    { Duration(y, Dec(m), t) :
        y \in {Dec(k) : k \in -MaxYears..MaxYears},
        m \in {k \in -MaxMonths..MaxMonths : k % 6 = 0},
        t \in 0..MaxDays }

ValidDates ==
    { p \in [kind : {"date"}, year : {2000, 2001}, month : {1, 2, 3, 12},
             day : {1, 28, 29, 30, 31}] : p.day <= DaysInMonth(p.year, p.month) }

Timedeltas == { Timedelta(n) : n \in 0..MaxDays }

Returned(v) == [newdt |-> None, value |-> v]

Init ==
    /\ self \in SelfDurations
    /\ other \in OtherDurations \cup ValidDates \cup Timedeltas
    /\ op = "init"
    /\ ret = None
    /\ fqin = None
    /\ TIME_REGEX_CACHE = <<>>
    /\ timestring = <<>>
    /\ cacheops = <<>>
    /\ pc = <<>>
    /\ addidx = <<>>
    /\ entry = <<>>
    /\ isotimes = <<>>
    /\ cleared = <<>>
    /\ outcome = <<>>

Add ==
    /\ op' = "add"
    /\ ret' = Duration_add(self, other)
    /\ UNCHANGED <<self, other, fqin, timeVars, threadVars>>

Sub ==
    /\ other.kind \in {"Duration", "timedelta"}
    /\ op' = "sub"
    /\ ret' = Returned(Duration_sub(self, other))
    /\ UNCHANGED <<self, other, fqin, timeVars, threadVars>>

RSub ==
    /\ other.kind \in {"date", "timedelta"}
    /\ op' = "rsub"
    /\ ret' = Duration_rsub(self, other)
    /\ UNCHANGED <<self, other, fqin, timeVars, threadVars>>

Eq ==
    /\ other.kind \in {"Duration", "timedelta"}
    /\ op' = "eq"
    /\ ret' = Returned(Duration_eq(self, other))
    /\ UNCHANGED <<self, other, fqin, timeVars, threadVars>>

Ne ==
    /\ other.kind \in {"Duration", "timedelta"}
    /\ op' = "ne"
    /\ ret' = Returned(Duration_ne(self, other))
    /\ UNCHANGED <<self, other, fqin, timeVars, threadVars>>

Next == Add \/ Sub \/ RSub \/ Eq \/ Ne

Spec == Init /\ [][Next]_vars

(***************************************************************************)
(* Claims about Duration, checked under Spec.                              *)
(***************************************************************************)
Integral(d) == IsInteger(d.years) /\ IsInteger(d.months)

Min(x, y) == IF x <= y THEN x ELSE y

\* the point d months after p's month, the day kept or clamped to the month's end
MonthsAdvanced(p, n) ==
    LET t == p.year * 12 + (p.month - 1) + n
        y == t \div 12
        m == (t % 12) + 1
    IN Date(y, m, Min(p.day, max_days_in_month(y, m)))

\* C1: for a Duration d with integral years and months and a zero exact part,
\* d + p is p advanced by d.years*12 + d.months months, the day kept when it
\* exists in the target month and otherwise set to the target month's last day.
C1_AddDateAdvancesMonths ==
    (op = "add" /\ other.kind = "date" /\ Integral(self) /\ self.tdelta = 0)
        => ret.value = MonthsAdvanced(other, IntOf(self.years) * 12 + IntOf(self.months))

\* C2 as stated: Durations whose (years, months) pairs differ compare unequal.
C2_PairsDifferUnequal ==
    (op \in {"eq", "ne"} /\ other.kind = "Duration"
        /\ <<self.years, self.months>> # <<other.years, other.months>>)
        => ret.value = (op = "ne")

\* C2 as amended: a == b holds exactly when the month totals years*12 + months
\* agree and the exact parts agree, whatever the (years, months) pairs are,
\* and a != b is the negation.
C2_EqualityNormalizes ==
    (op \in {"eq", "ne"} /\ other.kind = "Duration")
        => LET same == /\ (self.years - other.years) * 12 = other.months - self.months
                       /\ self.tdelta - other.tdelta = 0
           IN ret.value = IF op = "eq" THEN same ELSE ~same

C2_Witness ==
    /\ op = "eq"
    /\ self = Duration(Dec(1), 0, 0)
    /\ other = Duration(0, Dec(12), 0)
    /\ ret.value = TRUE

\* C6: a + b of two Durations has years = b.years - a.years, months =
\* a.months - b.months and exact = b.exact - a.exact, and the step leaves
\* both operands as they were.
C6_AddDurations ==
    [][(op' = "add" /\ other.kind = "Duration")
        => /\ ret'.value.kind = "Duration"
           /\ ret'.value.years = other.years - self.years
           /\ ret'.value.months = self.months - other.months
           /\ ret'.value.tdelta = other.tdelta - self.tdelta
           /\ self' = self
           /\ other' = other]_vars

C6_Witness ==
    /\ op = "add"
    /\ self = Duration(Dec(1), Dec(2), 1)
    /\ other = Duration(0, Dec(6), 0)
    /\ ret.value = Duration(Dec(-1), Dec(-4), -1)

\* C7: for a Duration d with integral years and months, p - d builds the
\* point newdt whose month is in 1..12 with 12*year + month equal to
\* 12*(p.year - d.years) + p.month - d.months (the bounded quotient with
\* bounds 1, 13), whose day is min(p.day, max_days_in_month(year, month)) and
\* so valid, and returns newdt moved back by d's exact part.
C7_RSubDate ==
    (op = "rsub" /\ other.kind = "date" /\ Integral(self))
        => LET newdt == ret.newdt
           IN /\ newdt.kind = "date"
              /\ newdt.month \in 1..12
              /\ 12 * newdt.year + newdt.month
                   = 12 * (other.year - IntOf(self.years))
                       + other.month - IntOf(self.months)
              /\ newdt.day = Min(other.day, max_days_in_month(newdt.year, newdt.month))
              /\ newdt.day \in 1..DaysInMonth(newdt.year, newdt.month)
              /\ ret.value.kind = "date"
              /\ date_sub(ret.value, -self.tdelta) = newdt

C7_Witness ==
    /\ op = "rsub"
    /\ other = Date(2000, 3, 31)
    /\ self = Duration(0, Dec(1), 1)
    /\ ret.newdt = Date(2000, 2, 29)
    /\ ret.value = Date(2000, 2, 28)

(***************************************************************************)
(* Specification SpecFq: fquotmod applied to arguments drawn from bounded  *)
(* sets, fractional and negative values included.                          *)
(***************************************************************************)
FqInputs ==
    { [kind |-> "fqin", val |-> v, low |-> l, high |-> l + w] :
        v \in -Dec(MaxVal)..Dec(MaxVal), l \in -MaxLow..MaxLow, w \in 1..MaxSpan }

InitFq ==
    /\ self = Duration(0, 0, 0)
    /\ other = None
    /\ op = "init"
    /\ ret = None
    /\ fqin \in FqInputs
    /\ TIME_REGEX_CACHE = <<>>
    /\ timestring = <<>>
    /\ cacheops = <<>>
    /\ pc = <<>>
    /\ addidx = <<>>
    /\ entry = <<>>
    /\ isotimes = <<>>
    /\ cleared = <<>>
    /\ outcome = <<>>

CallFquotmod ==
    /\ op' = "fquotmod"
    /\ ret' = Returned(fquotmod(fqin.val, fqin.low, fqin.high))
    /\ UNCHANGED <<self, other, fqin, timeVars, threadVars>>

NextFq == CallFquotmod

SpecFq == InitFq /\ [][NextFq]_vars

\* C8: for every value v, negative values included, and integer bounds
\* low < high, fquotmod(v, low, high) returns (div, mod) with low <= mod < high
\* and v - low = div*(high - low) + (mod - low): div is the floor of
\* (v - low)/(high - low).
C8_FquotmodBounded ==
    op = "fquotmod"
        => LET div == ret.value.div
               mod == ret.value.mod
               b == fqin.high - fqin.low
           IN /\ Dec(fqin.low) <= mod
              /\ mod < Dec(fqin.high)
              /\ fqin.val - Dec(fqin.low) = Dec(div * b) + (mod - Dec(fqin.low))
              /\ Dec(div * b) <= fqin.val - Dec(fqin.low)
              /\ fqin.val - Dec(fqin.low) < Dec((div + 1) * b)

C8_Witness ==
    /\ op = "fquotmod"
    /\ fqin.val = -Fraction
    /\ fqin.low = 0
    /\ fqin.high = 12
    /\ ret.value.div = -1
    /\ ret.value.mod = Dec(12) - Fraction

(***************************************************************************)
(* isotime: regular expressions.  A regular expression text is the         *)
(* sequence of its elements; a string is the sequence of its characters.   *)
(*   OptT           T?                                                     *)
(*   Lit(c)         the character c                                        *)
(*   Field(g,n,f)   (?P<g>[0-9]{n})  or, with f, (?P<g>[0-9]{n}([,.][0-9]+)?) *)
(*   Tz             TZ_REGEX                                               *)
(* re.compile wraps a text with \A and \Z: a match covers the whole string.*)
(***************************************************************************)
Digit == {"0", "1", "2", "3", "4", "5", "6", "7", "8", "9"}

OptT == [t |-> "opt", c |-> "T"]

Lit(c) == [t |-> "lit", c |-> c]

Field(g, n, f) == [t |-> "field", g |-> g, n |-> n, frac |-> f]

Tz == [t |-> "tz"]

\* isotzinfo.TZ_REGEX: no designator, Z, +-hh, +-hhmm or +-hh:mm
TZ_REGEX == <<Tz>>

\* the regex_text arguments of the five add_re calls, in call order
TIME_REGEX_TEXTS ==
    << <<OptT, Field("hour", 2, FALSE), Field("minute", 2, FALSE), Lit(":"),
         Field("second", 2, TRUE)>>,
       <<OptT, Field("hour", 2, FALSE), Field("minute", 1, FALSE),
         Field("second", 2, TRUE)>>,
       <<OptT, Field("hour", 2, FALSE), Lit(":"), Field("minute", 2, TRUE)>>,
       <<OptT, Field("hour", 2, FALSE), Field("minute", 2, TRUE)>>,
       <<OptT, Field("hour", 2, TRUE)>> >>

\* re.compile(text): a compiled pattern, which has .match and .pattern
re_compile(text) == [type |-> "re.Pattern", pattern |-> text]

\* r.pattern: the text of a compiled pattern, a str
pattern_text(r) == [type |-> "str", pattern |-> r.pattern]

NoMatch == [matched |-> FALSE]

\* the value of a group that took no part in the match (None in a groupdict)
NoGroup == <<"None">>

At(s, i) == IF i >= 1 /\ i <= Len(s) THEN s[i] ELSE "$"

RECURSIVE DigitRun(_, _)
\* the number of digits of s from position i on
DigitRun(s, i) == IF At(s, i) \in Digit THEN 1 + DigitRun(s, i + 1) ELSE 0

\* the end (exclusive) of TZ_REGEX matched greedily at position i
TzEnd(s, i) ==
    IF At(s, i) = "Z" THEN i + 1
    ELSE IF At(s, i) \in {"+", "-"} /\ At(s, i + 1) \in Digit /\ At(s, i + 2) \in Digit
    THEN IF At(s, i + 3) = ":" /\ At(s, i + 4) \in Digit /\ At(s, i + 5) \in Digit
         THEN i + 6
         ELSE IF At(s, i + 3) \in Digit /\ At(s, i + 4) \in Digit THEN i + 5
         ELSE i + 3
    ELSE i

\* the groups of TZ_REGEX matched at i..e-1
TzGroups(s, i, e) ==
    IF e = i
    THEN [tzname |-> <<>>, tzsign |-> NoGroup, tzhour |-> NoGroup, tzmin |-> NoGroup]
    ELSE IF s[i] = "Z"
    THEN [tzname |-> <<"Z">>, tzsign |-> NoGroup, tzhour |-> NoGroup, tzmin |-> NoGroup]
    ELSE [tzname |-> SubSeq(s, i, e - 1), tzsign |-> <<s[i]>>,
          tzhour |-> SubSeq(s, i + 1, i + 2),
          tzmin |-> IF e = i + 3 THEN NoGroup ELSE SubSeq(s, e - 2, e - 1)]

RECURSIVE MatchFrom(_, _, _, _, _)
\* match elements k.. of text at position i of s, having captured groups g
MatchFrom(text, k, s, i, g) ==
    IF k > Len(text)
    THEN (IF i = Len(s) + 1 THEN [matched |-> TRUE, groups |-> g] ELSE NoMatch)
    ELSE LET e == text[k] IN
         IF e.t = "opt"
         THEN MatchFrom(text, k + 1, s, IF At(s, i) = e.c THEN i + 1 ELSE i, g)
         ELSE IF e.t = "lit"
         THEN (IF At(s, i) = e.c THEN MatchFrom(text, k + 1, s, i + 1, g) ELSE NoMatch)
         ELSE IF e.t = "field"
         THEN IF DigitRun(s, i) < e.n THEN NoMatch
              ELSE LET j == i + e.n
                       r == IF e.frac /\ At(s, j) \in {",", "."}
                            THEN DigitRun(s, j + 1) ELSE 0
                       end == IF r > 0 THEN j + 1 + r ELSE j
                   IN MatchFrom(text, k + 1, s, end,
                                g @@ (e.g :> SubSeq(s, i, end - 1)))
         ELSE LET end == TzEnd(s, i)
              IN MatchFrom(text, k + 1, s, end, g @@ TzGroups(s, i, end))

\* pattern.match(timestring) for a compiled pattern
re_match(pattern, s) == MatchFrom(pattern.pattern, 1, s, 1, <<>>)

(***************************************************************************)
(* isotime: Decimal numbers read from text.  A Decimal read from text is   *)
(* [n, k]: the integer n of all its digits and the number k of digits      *)
(* after the point; its value is n / 10^k.                                 *)
(***************************************************************************)
DigitVal(c) ==
    CASE c = "0" -> 0 [] c = "1" -> 1 [] c = "2" -> 2 [] c = "3" -> 3 [] c = "4" -> 4
      [] c = "5" -> 5 [] c = "6" -> 6 [] c = "7" -> 7 [] c = "8" -> 8 [] c = "9" -> 9

RECURSIVE Pow10(_)
Pow10(k) == IF k = 0 THEN 1 ELSE 10 * Pow10(k - 1)

RECURSIVE IntOfDigits(_)
\* int(text) for a text of digits
IntOfDigits(v) ==
    IF v = <<>> THEN 0
    ELSE 10 * IntOfDigits(SubSeq(v, 1, Len(v) - 1)) + DigitVal(v[Len(v)])

\* value.replace(",", ".")
replace_comma(v) == [i \in 1..Len(v) |-> IF v[i] = "," THEN "." ELSE v[i]]

\* lines 79-81: every group that is not None has its commas replaced
normalize_groups(groups) ==
    [key \in DOMAIN groups |->
        IF groups[key] = NoGroup THEN groups[key] ELSE replace_comma(groups[key])]

InvalidOperation == [kind |-> "InvalidOperation"]

\* Decimal(text): digits, optionally a point and more digits
ToDecimal(v) ==
    IF \E i \in 1..Len(v) : v[i] \notin Digit \cup {"."}
    THEN InvalidOperation
    ELSE LET dots == {i \in 1..Len(v) : v[i] = "."}
             whole == DigitRun(v, 1)
         IN IF dots = {}
            THEN [kind |-> "Decimal", n |-> IntOfDigits(v), k |-> 0]
            ELSE [kind |-> "Decimal",
                  n |-> IntOfDigits(SubSeq(v, 1, whole) \o SubSeq(v, whole + 2, Len(v))),
                  k |-> Len(v) - whole - 1]

\* floor(n * 10^6 / 10^k): the value n/10^k quantized to .000001 with
\* ROUND_FLOOR, in millionths
FloorMicros(n, k) ==
    IF k <= 6 THEN n * Pow10(6 - k) ELSE n \div Pow10(k - 6)

\* (n / 10^k * 10^6).to_integral(): round half even
RoundMicros(n, k) ==
    IF k <= 6 THEN n * Pow10(6 - k)
    ELSE LET d == Pow10(k - 6)
             q == n \div d
             r == n % d
         IN IF 2 * r > d \/ (2 * r = d /\ q % 2 = 1) THEN q + 1 ELSE q

\* isotzinfo.build_tzinfo(tzname, tzsign, tzhour, tzmin)
build_tzinfo(tzname, tzsign, tzhour, tzmin) ==
    IF tzname = NoGroup \/ tzname = <<>> THEN None
    ELSE IF tzname = <<"Z">> THEN [kind |-> "UTC"]
    ELSE [kind |-> "FixedOffset", sign |-> tzsign, hours |-> tzhour, minutes |-> tzmin]

\* datetime.time(hour, minute, second, microsecond, tzinfo)
Time(h, m, sec, us, tz) ==
    IF h \in 0..23 /\ m \in 0..59 /\ sec \in 0..59 /\ us \in 0..999999
    THEN [kind |-> "time", hour |-> h, minute |-> m, second |-> sec,
          microsecond |-> us, tzinfo |-> tz]
    ELSE ValueError

\* lines 78-127 of parse_time: the time a match denotes
time_of_match(matched) ==
    LET groups == normalize_groups(matched)
        tzinfo == build_tzinfo(groups["tzname"], groups["tzsign"],
                     IF groups["tzhour"] = NoGroup THEN 0 ELSE IntOfDigits(groups["tzhour"]),
                     IF groups["tzmin"] = NoGroup THEN 0 ELSE IntOfDigits(groups["tzmin"]))
    IN IF "second" \in DOMAIN groups
       THEN LET sec == ToDecimal(groups["second"])
            IN IF sec.kind # "Decimal" THEN sec
               ELSE LET second == FloorMicros(sec.n, sec.k)
                        microsecond == second - (second \div 1000000) * 1000000
                    IN Time(IntOfDigits(groups["hour"]), IntOfDigits(groups["minute"]),
                            second \div 1000000, microsecond, tzinfo)
       ELSE IF "minute" \in DOMAIN groups
       THEN LET min == ToDecimal(groups["minute"])
            IN IF min.kind # "Decimal" THEN min
               ELSE LET whole == min.n \div Pow10(min.k)
                        second == FloorMicros((min.n - whole * Pow10(min.k)) * 60, min.k)
                        microsecond == second - (second \div 1000000) * 1000000
                    IN Time(IntOfDigits(groups["hour"]), whole,
                            second \div 1000000, microsecond, tzinfo)
       ELSE LET hr == ToDecimal(groups["hour"])
            IN IF hr.kind # "Decimal" THEN hr
               ELSE LET unit == Pow10(hr.k)
                        hour == hr.n \div unit
                        minute == (hr.n - hour * unit) * 60
                        second == (minute - (minute \div unit) * unit) * 60
                        microsecond == RoundMicros(second - (second \div unit) * unit, hr.k)
                    IN Time(hour, minute \div unit, second \div unit, microsecond, tzinfo)

(***************************************************************************)
(* isotime: the pattern cache and parse_time.                              *)
(***************************************************************************)
\* add_re(regex_text) on a cache that drops a pattern the cache already holds
add_re_unique(cache, regex_text) ==
    IF \E i \in 1..Len(cache) : cache[i] = re_compile(regex_text \o TZ_REGEX)
    THEN cache
    ELSE Append(cache, re_compile(regex_text \o TZ_REGEX))

\* add_re(regex_text): TIME_REGEX_CACHE.append(re.compile(...))
add_re(cache, regex_text) == Append(cache, re_compile(regex_text \o TZ_REGEX))

\* a populated cache is left as it is
keep_populated(cache) == cache

\* lines 28-30: a populated cache is cleared
clear_if_populated(cache) == IF cache # <<>> THEN <<>> ELSE cache

\* line 54: the pattern texts of the cache, not the compiled patterns
return_patterns(cache) == [i \in 1..Len(cache) |-> pattern_text(cache[i])]

RECURSIVE add_all(_, _)
\* the add_re calls k..5 in order
add_all(cache, k) ==
    IF k > Len(TIME_REGEX_TEXTS) THEN cache
    ELSE add_all(add_re(cache, TIME_REGEX_TEXTS[k]), k + 1)

\* build_time_regexps(): the cache it leaves, the list it returns and the
\* operations it performed on the cache
build_time_regexps(cache) ==
    LET start == clear_if_populated(cache)
        built == add_all(start, 1)
    IN [cache |-> built,
        value |-> return_patterns(built),
        ops |-> (IF cache # <<>> /\ start = <<>> THEN <<"clear">> ELSE <<>>)
                  \o [i \in 1..(Len(built) - Len(start)) |-> "compile"]]

AttributeError == [kind |-> "AttributeError"]

ISO8601Error(text) == [kind |-> "ISO8601Error", text |-> text]

RECURSIVE match_loop(_, _, _)
\* lines 75-128: the loop over isotimes from its i-th element on
match_loop(patterns, text, i) ==
    IF i > Len(patterns) THEN ISO8601Error(text)
    ELSE IF patterns[i].type # "re.Pattern" THEN AttributeError
    ELSE LET m == re_match(patterns[i], text)
         IN IF m.matched THEN time_of_match(m.groups)
            ELSE match_loop(patterns, text, i + 1)

\* parse_time(timestring)
parse_time(cache, text) ==
    LET b == build_time_regexps(cache)
    IN [cache |-> b.cache, value |-> match_loop(b.value, text, 1), ops |-> b.ops]

(***************************************************************************)
(* Specification SpecTime: sequential calls of build_time_regexps and of   *)
(* parse_time on a time string drawn from a bounded family.                *)
(***************************************************************************)
Hours == { [txt |-> <<"2", "3">>, val |-> 23], [txt |-> <<"1", "4">>, val |-> 14] }

Minutes == { [txt |-> <<"2", "0">>, val |-> 20], [txt |-> <<"0", "5">>, val |-> 5] }

Seconds == { [txt |-> <<"5", "0">>, val |-> 50], [txt |-> <<"0", "0">>, val |-> 0] }

Fractions ==
    { [txt |-> <<>>, us |-> 0],
      [txt |-> <<".", "1", "2", "3">>, us |-> 123000],
      [txt |-> <<",", "5">>, us |-> 500000],
      [txt |-> <<".", "5">>, us |-> 500000] }

Zones == { [txt |-> <<>>, tz |-> None], [txt |-> <<"Z">>, tz |-> [kind |-> "UTC"]] }

Prefixes == { <<>>, <<"T">> }

Separators == { <<>>, <<":">> }

TimeStrings ==
    { p \o h.txt \o s1 \o m \o s2 \o sec \o f.txt \o z.txt :
        p \in Prefixes, h \in Hours, s1 \in Separators,
        m \in {x.txt : x \in Minutes} \cup {<<>>, <<"2">>},
        s2 \in Separators, sec \in {x.txt : x \in Seconds} \cup {<<>>},
        f \in Fractions, z \in Zones }
    \cup { <<"n", "o", "t", "a", "t", "i", "m", "e">>, <<>> }

InitTime ==
    /\ self = Duration(0, 0, 0)
    /\ other = None
    /\ op = "init"
    /\ ret = None
    /\ fqin = None
    /\ TIME_REGEX_CACHE = <<>>
    /\ timestring \in TimeStrings
    /\ cacheops = <<>>
    /\ pc = <<>>
    /\ addidx = <<>>
    /\ entry = <<>>
    /\ isotimes = <<>>
    /\ cleared = <<>>
    /\ outcome = <<>>

BuildTimeRegexps ==
    LET b == build_time_regexps(TIME_REGEX_CACHE)
    IN /\ op' = "build_time_regexps"
       /\ TIME_REGEX_CACHE' = b.cache
       /\ ret' = Returned(b.value)
       /\ cacheops' = b.ops
       /\ UNCHANGED <<self, other, fqin, timestring, threadVars>>

ParseTime ==
    LET r == parse_time(TIME_REGEX_CACHE, timestring)
    IN /\ op' = "parse_time"
       /\ TIME_REGEX_CACHE' = r.cache
       /\ ret' = Returned(r.value)
       /\ cacheops' = r.ops
       /\ UNCHANGED <<self, other, fqin, timestring, threadVars>>

NextTime == BuildTimeRegexps \/ ParseTime

SpecTime == InitTime /\ [][NextTime]_vars

(***************************************************************************)
(* Claims about parse_time and the cache, checked under SpecTime.          *)
(***************************************************************************)
\* the strings [T]hh:mm:ss[.f]TZD of the family with the times they denote
ExtendedComplete ==
    { [text |-> p \o h.txt \o <<":">> \o m.txt \o <<":">> \o sec.txt \o f.txt \o z.txt,
       time |-> Time(h.val, m.val, sec.val, f.us, z.tz)] :
        p \in Prefixes, h \in Hours, m \in Minutes, sec \in Seconds,
        f \in Fractions, z \in Zones }

ReducedExamples ==
    { [text |-> <<"T", "2", "3", "2", "0">>, time |-> Time(23, 20, 0, 0, None)],
      [text |-> <<"1", "4">>, time |-> Time(14, 0, 0, 0, None)] }

\* C3: parse_time returns the time a documented string denotes: an extended
\* complete string hh:mm:ss[.f] with a timezone designator gives that hour,
\* minute and second with the fraction in microseconds (',' as '.'), "T2320"
\* gives 23:20:00 and "14" gives 14:00:00.
C3_ParsesDocumentedTimes ==
    op = "parse_time"
        => \A e \in ExtendedComplete \cup ReducedExamples :
               timestring = e.text => ret.value = e.time

Unmatched(text) ==
    \A i \in 1..Len(TIME_REGEX_CACHE) : ~re_match(TIME_REGEX_CACHE[i], text).matched

\* C4: for a string that none of the five grammars matches, parse_time ends in
\* ISO8601Error carrying that string, never in a time or another failure.
C4_UnmatchedRaisesParseError ==
    (op = "parse_time" /\ Unmatched(timestring))
        => ret.value = ISO8601Error(timestring)

HasField(r, g) == \E k \in 1..Len(r.pattern) : r.pattern[k] = Field(g, 2, TRUE)

HasColon(r) == \E k \in 1..Len(r.pattern) : r.pattern[k] = Lit(":")

C10_ParseOnlyReadsCache ==
    [][(op' = "parse_time" /\ TIME_REGEX_CACHE # <<>>)
        => cacheops' = <<>> /\ TIME_REGEX_CACHE' = TIME_REGEX_CACHE]_vars

(***************************************************************************)
(* Specification SpecConc: two threads, each calling build_time_regexps or *)
(* parse_time once, with no lock around the cache.  The populated-check,   *)
(* the clear, each add_re call and the return are separate steps.          *)
(***************************************************************************)
Threads == {1, 2}

Populated == build_time_regexps(<<>>).cache

InitConc ==
    /\ self = Duration(0, 0, 0)
    /\ other = None
    /\ op = "init"
    /\ ret = None
    /\ fqin = None
    /\ TIME_REGEX_CACHE \in {<<>>, Populated}
    /\ timestring \in {<<"1", "4">>, <<"n", "o", "t", "a", "t", "i", "m", "e">>}
    /\ cacheops = <<>>
    /\ pc = [t \in Threads |-> "idle"]
    /\ addidx = [t \in Threads |-> 1]
    /\ entry = [t \in Threads |-> "none"]
    /\ isotimes = [t \in Threads |-> <<>>]
    /\ cleared = [t \in Threads |-> FALSE]
    /\ outcome = [t \in Threads |-> None]

\* the thread calls build_time_regexps, directly or as line 74 of parse_time
Call(t) ==
    /\ pc[t] = "idle"
    /\ \E e \in {"build_time_regexps", "parse_time"} : entry' = [entry EXCEPT ![t] = e]
    /\ pc' = [pc EXCEPT ![t] = "check"]
    /\ UNCHANGED <<durVars, fqin, timeVars, addidx, isotimes, cleared, outcome>>

\* line 28: if TIME_REGEX_CACHE
Check(t) ==
    /\ pc[t] = "check"
    /\ cleared' = [cleared EXCEPT ![t] = (TIME_REGEX_CACHE # <<>>)]
    /\ pc' = [pc EXCEPT ![t] = IF TIME_REGEX_CACHE # <<>> THEN "clear" ELSE "add"]
    /\ UNCHANGED <<durVars, fqin, timeVars, addidx, entry, isotimes, outcome>>

\* line 30: TIME_REGEX_CACHE.clear()
Clear(t) ==
    /\ pc[t] = "clear"
    /\ TIME_REGEX_CACHE' = <<>>
    /\ pc' = [pc EXCEPT ![t] = "add"]
    /\ UNCHANGED <<durVars, fqin, timestring, cacheops, addidx, entry, isotimes,
                   cleared, outcome>>

\* one of the five add_re calls
AddRe(t) ==
    /\ pc[t] = "add"
    /\ TIME_REGEX_CACHE' = add_re(TIME_REGEX_CACHE, TIME_REGEX_TEXTS[addidx[t]])
    /\ addidx' = [addidx EXCEPT ![t] = addidx[t] + 1]
    /\ pc' = [pc EXCEPT ![t] = IF addidx[t] = Len(TIME_REGEX_TEXTS) THEN "return" ELSE "add"]
    /\ UNCHANGED <<durVars, fqin, timestring, cacheops, entry, isotimes, cleared, outcome>>

\* line 54: the return statement reads the cache
Return(t) ==
    /\ pc[t] = "return"
    /\ isotimes' = [isotimes EXCEPT ![t] = return_patterns(TIME_REGEX_CACHE)]
    /\ pc' = [pc EXCEPT ![t] = IF entry[t] = "parse_time" THEN "match" ELSE "done"]
    /\ outcome' = [outcome EXCEPT ![t] =
                      IF entry[t] = "parse_time" THEN None ELSE [kind |-> "returned"]]
    /\ UNCHANGED <<durVars, fqin, timeVars, addidx, entry, cleared>>

\* lines 75-128 of parse_time on the list the thread was handed
Match(t) ==
    /\ pc[t] = "match"
    /\ outcome' = [outcome EXCEPT ![t] = match_loop(isotimes[t], timestring, 1)]
    /\ pc' = [pc EXCEPT ![t] = "done"]
    /\ UNCHANGED <<durVars, fqin, timeVars, addidx, entry, isotimes, cleared>>

NextConc ==
    \E t \in Threads :
        Call(t) \/ Check(t) \/ Clear(t) \/ AddRe(t) \/ Return(t) \/ Match(t)

SpecConc == InitConc /\ [][NextConc]_vars

Count(seq, x) == Cardinality({i \in 1..Len(seq) : seq[i] = x})

\* C9: with no synchronization there is an interleaving of two calls that
\* leaves the cache other than the five grammars in order: whenever both
\* calls made their populated-check on an empty cache (neither cleared) and
\* both have finished, the cache holds ten patterns, each grammar twice.
C9_BothSawEmptyLeavesTen ==
    (\A t \in Threads : pc[t] = "done" /\ ~cleared[t])
        => /\ Len(TIME_REGEX_CACHE) = 10
           /\ TIME_REGEX_CACHE # Populated
           /\ \A i \in 1..5 : Count(TIME_REGEX_CACHE, Populated[i]) = 2

C9_Witness ==
    /\ \A t \in Threads : pc[t] = "done" /\ ~cleared[t]
    /\ Len(TIME_REGEX_CACHE) = 10
    /\ TIME_REGEX_CACHE # Populated

====
